---- MODULE Spec2Model ----
(***************************************************************************)
(* Model of homeassistant/components/airnow/sensor.py: the descriptor      *)
(* table SENSOR_TYPES, the entity class AirNowSensor and the platform      *)
(* set-up function async_setup_entry, together with the two collaborators  *)
(* the module talks to: the data update coordinator (whose `data` is       *)
(* replaced on every refresh) and the host (which calls set-up and reads   *)
(* the entity properties).                                                 *)
(*                                                                         *)
(* The strings the code builds or transforms (the formatted coordinates,   *)
(* the lower-cased descriptor key, the unique id) are sequences of         *)
(* one-character strings, so that lower() and the f-string are computed,   *)
(* not assumed.                                                            *)
(* Coordinates are floats with one decimal, held as an integer number of   *)
(* tenths (40.0 is 400, -75.0 is -750).                                    *)
(***************************************************************************)
EXTENDS Integers, Sequences, FiniteSets, TLC

(***************************************************************************)
(* Bounds                                                                  *)
(***************************************************************************)
MaxSetupCalls == 2

(***************************************************************************)
(* Python values                                                           *)
(***************************************************************************)
PyInt(n) == [type |-> "int", value |-> n]

PyStr(s) == [type |-> "str", value |-> s]

PyNone == [type |-> "NoneType", value |-> "None"]

Return(v) == [kind |-> "return", value |-> v]

\* an exception of class exc raised with argument arg
Raise(exc, arg) == [kind |-> "raise", value |-> [type |-> exc, value |-> arg]]

\* mutant of dict_get: subscripting instead of get()
dict_get_subscript(data, key) ==
    IF key \in DOMAIN data THEN Return(data[key]) ELSE Raise("KeyError", key)

\* dict.get(key): the value, or None when the key is absent; never raises
dict_get(data, key) == IF key \in DOMAIN data THEN Return(data[key]) ELSE Return(PyNone)

\* dict[key]: the value, or KeyError(key) when the key is absent
dict_getitem(data, key) == IF key \in DOMAIN data THEN Return(data[key]) ELSE Raise("KeyError", key)

(***************************************************************************)
(* str.lower() and str(float)                                              *)
(***************************************************************************)
UpperChars == <<"A", "B", "C", "D", "E", "F", "G", "H", "I", "J", "K", "L", "M",
                "N", "O", "P", "Q", "R", "S", "T", "U", "V", "W", "X", "Y", "Z">>

LowerChars == <<"a", "b", "c", "d", "e", "f", "g", "h", "i", "j", "k", "l", "m",
                "n", "o", "p", "q", "r", "s", "t", "u", "v", "w", "x", "y", "z">>

DigitChars == <<"0", "1", "2", "3", "4", "5", "6", "7", "8", "9">>

lower_char(c) ==
    IF \E i \in 1..Len(UpperChars) : UpperChars[i] = c
    THEN LowerChars[CHOOSE i \in 1..Len(UpperChars) : UpperChars[i] = c]
    ELSE c

str_lower(s) == [i \in 1..Len(s) |-> lower_char(s[i])]

RECURSIVE nat_str(_)
nat_str(n) ==
    IF n < 10 THEN <<DigitChars[n + 1]>>
    ELSE nat_str(n \div 10) \o <<DigitChars[(n % 10) + 1]>>

\* str() of a float with one decimal, given in tenths
float_str(t) ==
    LET a == IF t < 0 THEN -t ELSE t
    IN  (IF t < 0 THEN <<"-">> ELSE <<>>)
        \o nat_str(a \div 10) \o <<".">> \o <<DigitChars[(a % 10) + 1]>>

(***************************************************************************)
(* Constants of the integration                                            *)
(***************************************************************************)
ATTR_API_AQI == "AQI"

ATTR_API_AQI_DESCRIPTION == "AQI_DESCRIPTION"

ATTR_API_AQI_LEVEL == "AQI_LEVEL"

ATTR_API_PM25 == "PM2.5"

ATTR_API_O3 == "O3"

\* the characters of a descriptor key
str_chars(s) ==
    CASE s = "AQI" -> <<"A", "Q", "I">>
      [] s = "PM2.5" -> <<"P", "M", "2", ".", "5">>
      [] s = "O3" -> <<"O", "3">>

DEFAULT_NAME == "AirNow"

DOMAIN_ == "airnow"

CONCENTRATION_MICROGRAMS_PER_CUBIC_METER == "ug/m3"

CONCENTRATION_PARTS_PER_MILLION == "ppm"

SensorStateClass_MEASUREMENT == "measurement"

DeviceEntryType_SERVICE == "service"

ATTRIBUTION == "Data provided by AirNow"

ATTR_DESCR == "description"

ATTR_LEVEL == "level"

(***************************************************************************)
(* The descriptor table.  A function-typed field holds the name of the     *)
(* lambda stored there ("None" where the field is None); py_call applies   *)
(* a stored lambda to a payload.                                           *)
(***************************************************************************)
\* lambda data: data.get(ATTR_API_AQI)
value_fn_aqi(data) == dict_get(data, ATTR_API_AQI)

\* mutant of extra_state_attributes_fn_aqi: the two payload fields swapped
extra_state_attributes_fn_aqi_swapped(data) ==
    LET d == dict_getitem(data, ATTR_API_AQI_LEVEL)
        l == dict_getitem(data, ATTR_API_AQI_DESCRIPTION)
    IN  IF d.kind = "raise" THEN d
        ELSE IF l.kind = "raise" THEN l
        ELSE Return((ATTR_DESCR :> d.value) @@ (ATTR_LEVEL :> l.value))

\* lambda data: {ATTR_DESCR: data[ATTR_API_AQI_DESCRIPTION], ATTR_LEVEL: data[ATTR_API_AQI_LEVEL]}
\* the dict display evaluates its items in order; the first missing key raises
extra_state_attributes_fn_aqi(data) ==
    LET d == dict_getitem(data, ATTR_API_AQI_DESCRIPTION)
        l == dict_getitem(data, ATTR_API_AQI_LEVEL)
    IN  IF d.kind = "raise" THEN d
        ELSE IF l.kind = "raise" THEN l
        ELSE Return((ATTR_DESCR :> d.value) @@ (ATTR_LEVEL :> l.value))

\* lambda data: data.get(ATTR_API_PM25)
value_fn_pm25(data) == dict_get(data, ATTR_API_PM25)

\* lambda data: data.get(ATTR_API_O3)
value_fn_o3(data) == dict_get(data, ATTR_API_O3)

py_call(fn, data) ==
    CASE fn = "value_fn_aqi" -> value_fn_aqi(data)
      [] fn = "extra_state_attributes_fn_aqi" -> extra_state_attributes_fn_aqi(data)
      [] fn = "value_fn_pm25" -> value_fn_pm25(data)
      [] fn = "value_fn_o3" -> value_fn_o3(data)

\* mutant of SENSOR_TYPES: the PM2.5 descriptor given the AQI attribute lambda
SENSOR_TYPES_pm25_attributes ==
    << [key |-> ATTR_API_AQI,
        translation_key |-> "aqi",
        icon |-> "mdi:blur",
        native_unit_of_measurement |-> "aqi",
        state_class |-> SensorStateClass_MEASUREMENT,
        value_fn |-> "value_fn_aqi",
        extra_state_attributes_fn |-> "extra_state_attributes_fn_aqi"],
       [key |-> ATTR_API_PM25,
        translation_key |-> "pm25",
        icon |-> "mdi:blur",
        native_unit_of_measurement |-> CONCENTRATION_MICROGRAMS_PER_CUBIC_METER,
        state_class |-> SensorStateClass_MEASUREMENT,
        value_fn |-> "value_fn_pm25",
        extra_state_attributes_fn |-> "extra_state_attributes_fn_aqi"],
       [key |-> ATTR_API_O3,
        translation_key |-> "o3",
        icon |-> "mdi:blur",
        native_unit_of_measurement |-> CONCENTRATION_PARTS_PER_MILLION,
        state_class |-> SensorStateClass_MEASUREMENT,
        value_fn |-> "value_fn_o3",
        extra_state_attributes_fn |-> "None"] >>

SENSOR_TYPES ==
    << [key |-> ATTR_API_AQI,
        translation_key |-> "aqi",
        icon |-> "mdi:blur",
        native_unit_of_measurement |-> "aqi",
        state_class |-> SensorStateClass_MEASUREMENT,
        value_fn |-> "value_fn_aqi",
        extra_state_attributes_fn |-> "extra_state_attributes_fn_aqi"],
       [key |-> ATTR_API_PM25,
        translation_key |-> "pm25",
        icon |-> "mdi:blur",
        native_unit_of_measurement |-> CONCENTRATION_MICROGRAMS_PER_CUBIC_METER,
        state_class |-> SensorStateClass_MEASUREMENT,
        value_fn |-> "value_fn_pm25",
        extra_state_attributes_fn |-> "None"],
       [key |-> ATTR_API_O3,
        translation_key |-> "o3",
        icon |-> "mdi:blur",
        native_unit_of_measurement |-> CONCENTRATION_PARTS_PER_MILLION,
        state_class |-> SensorStateClass_MEASUREMENT,
        value_fn |-> "value_fn_o3",
        extra_state_attributes_fn |-> "None"] >>

(***************************************************************************)
(* The collaborators' data                                                 *)
(***************************************************************************)
EntryIds == {"entry_1", "entry_2"}

CoordinatorIds == {1, 2}

\* (latitude, longitude) of each coordinator, in tenths of a degree
Locations == (1 :> <<400, -750>>) @@ (2 :> <<-339, 1512>>)

PayloadFields == {ATTR_API_AQI, ATTR_API_AQI_DESCRIPTION, ATTR_API_AQI_LEVEL, ATTR_API_PM25, ATTR_API_O3}

FieldValues(f) ==
    CASE f = ATTR_API_AQI -> {PyInt(42)}
      [] f = ATTR_API_AQI_DESCRIPTION -> {PyStr("Good"), PyStr("Moderate")}
      [] f = ATTR_API_AQI_LEVEL -> {PyInt(1), PyInt(2)}
      [] f = ATTR_API_PM25 -> {PyInt(7)}
      [] f = ATTR_API_O3 -> {PyInt(3)}

PayloadValues == UNION {FieldValues(f) : f \in PayloadFields}

\* every mapping from a subset of the payload fields to a value of the field
Snapshots ==
    UNION { {s \in [S -> PayloadValues] : \A f \in S : s[f] \in FieldValues(f)} : S \in SUBSET PayloadFields }

\* the payloads each coordinator fetches: the first any of them, the second
\* the empty one, the one with the three AQI fields, and a full one
SnapshotsOf(c) ==
    IF c = 1 THEN Snapshots
    ELSE {s \in Snapshots :
            /\ DOMAIN s \in {{}, {ATTR_API_AQI, ATTR_API_AQI_DESCRIPTION, ATTR_API_AQI_LEVEL}, PayloadFields}
            /\ ATTR_API_AQI_LEVEL \in DOMAIN s => s[ATTR_API_AQI_LEVEL] = PyInt(2)
            /\ ATTR_API_AQI_DESCRIPTION \in DOMAIN s => s[ATTR_API_AQI_DESCRIPTION] = PyStr("Moderate")}

NoCall == [op |-> "none", entry |-> "", entity |-> <<0, 0>>, result |-> Return(PyNone)]

VARIABLES
    hass_data,      \* hass.data[DOMAIN]: entry id -> coordinator
    coordinator,    \* coordinator -> [latitude, longitude, data]
    sensor_types,   \* the module-level tuple SENSOR_TYPES
    added,          \* the calls of async_add_entities, in order
    last_call       \* the host's latest call into the module and what it got

vars == <<hass_data, coordinator, sensor_types, added, last_call>>

(***************************************************************************)
(* AirNowSensor                                                            *)
(***************************************************************************)
\* mutant of unique_id_fstring: the key not lower-cased
unique_id_fstring_no_lower(latitude, longitude, key) ==
    float_str(latitude) \o <<"-">> \o float_str(longitude) \o <<"-">> \o str_chars(key)

\* mutant of unique_id_fstring: the key left out
unique_id_fstring_no_key(latitude, longitude, key) ==
    float_str(latitude) \o <<"-">> \o float_str(longitude)

\* f"{coordinator.latitude}-{coordinator.longitude}-{description.key.lower()}"
unique_id_fstring(latitude, longitude, key) ==
    float_str(latitude) \o <<"-">> \o float_str(longitude) \o <<"-">> \o str_lower(str_chars(key))

DeviceInfo(entry_type, identifiers, manufacturer, name) ==
    [entry_type |-> entry_type, identifiers |-> identifiers,
     manufacturer |-> manufacturer, name |-> name]

\* AirNowSensor.__init__(coordinator, description); the two arguments are kept
\* by reference: the coordinator's id and the descriptor's place in the table
AirNowSensor(c, description) ==
    LET uid == unique_id_fstring(coordinator[c].latitude, coordinator[c].longitude,
                                 sensor_types[description].key)
    IN  [coordinator |-> c,
         entity_description |-> description,
         _attr_unique_id |-> uid,
         _attr_device_info |-> DeviceInfo(DeviceEntryType_SERVICE, {<<DOMAIN_, uid>>},
                                          DEFAULT_NAME, DEFAULT_NAME)]

\* the entities the host holds, as (call, position) references into `added`
EntityRefs == {<<n, i>> \in (1..Len(added)) \X (1..Len(SENSOR_TYPES)) : i <= Len(added[n].entities)}

Entity(r) == added[r[1]].entities[r[2]]

\* mutant of coordinator_data: the first entry's coordinator, whatever self is
coordinator_data_first_entry(self) == coordinator[hass_data["entry_1"]].data

\* self.coordinator.data
coordinator_data(self) == coordinator[self.coordinator].data

\* the value of the property native_value
native_value_result(self) ==
    py_call(sensor_types[self.entity_description].value_fn, coordinator_data(self))

\* the value of the property extra_state_attributes
extra_state_attributes_result(self) ==
    IF sensor_types[self.entity_description].extra_state_attributes_fn # "None"
    THEN py_call(sensor_types[self.entity_description].extra_state_attributes_fn, coordinator_data(self))
    ELSE Return(PyNone)

(***************************************************************************)
(* Actions                                                                 *)
(***************************************************************************)
Init ==
    /\ hass_data = [e \in EntryIds |-> IF e = "entry_1" THEN 1 ELSE 2]
    /\ \E d \in [CoordinatorIds -> Snapshots] :
          /\ \A c \in CoordinatorIds : d[c] \in SnapshotsOf(c)
          /\ coordinator = [c \in CoordinatorIds |->
                               [latitude |-> Locations[c][1], longitude |-> Locations[c][2], data |-> d[c]]]
    /\ sensor_types = SENSOR_TYPES
    /\ added = <<>>
    /\ last_call = NoCall

\* mutant of async_setup_entry: the last descriptor of the table is left out
async_setup_entry_short(entry) ==
    /\ Len(added) < MaxSetupCalls
    /\ \A n \in 1..Len(added) : added[n].config_entry # entry
    /\ LET c == hass_data[entry]
           entities == [i \in 1..(Len(sensor_types) - 1) |-> AirNowSensor(c, i)]
       IN  /\ added' = Append(added, [config_entry |-> entry, entities |-> entities,
                                      update_before_add |-> FALSE])
           /\ last_call' = [op |-> "async_setup_entry", entry |-> entry,
                            entity |-> <<0, 0>>, result |-> Return(PyNone)]
    /\ UNCHANGED <<hass_data, coordinator, sensor_types>>

\* async_setup_entry(hass, config_entry, async_add_entities); the host sets
\* an entry up once, which the second guard states
async_setup_entry(entry) ==
    /\ Len(added) < MaxSetupCalls
    /\ \A n \in 1..Len(added) : added[n].config_entry # entry
    /\ LET c == hass_data[entry]
           entities == [i \in 1..Len(sensor_types) |-> AirNowSensor(c, i)]
       IN  /\ added' = Append(added, [config_entry |-> entry, entities |-> entities,
                                      update_before_add |-> FALSE])
           /\ last_call' = [op |-> "async_setup_entry", entry |-> entry,
                            entity |-> <<0, 0>>, result |-> Return(PyNone)]
    /\ UNCHANGED <<hass_data, coordinator, sensor_types>>

\* the coordinator replaces its data with a freshly fetched payload
coordinator_refresh(c) ==
    /\ \E s \in SnapshotsOf(c) :
          /\ s # coordinator[c].data
          /\ coordinator' = [coordinator EXCEPT ![c].data = s]
    /\ last_call' = [NoCall EXCEPT !.op = "refresh"]
    /\ UNCHANGED <<hass_data, sensor_types, added>>

\* mutant of native_value: the lambda pops its key from the payload
native_value_pop(r) ==
    LET self == Entity(r)
        key == sensor_types[self.entity_description].key
        data == coordinator_data(self)
    IN  /\ last_call' = [op |-> "native_value", entry |-> "", entity |-> r,
                         result |-> dict_get(data, key)]
        /\ coordinator' = [coordinator EXCEPT ![self.coordinator].data =
                              [f \in DOMAIN data \ {key} |-> data[f]]]
        /\ UNCHANGED <<hass_data, sensor_types, added>>

\* the host reads AirNowSensor.native_value
native_value(r) ==
    /\ last_call' = [op |-> "native_value", entry |-> "", entity |-> r,
                     result |-> native_value_result(Entity(r))]
    /\ UNCHANGED <<hass_data, coordinator, sensor_types, added>>

\* the host reads AirNowSensor.extra_state_attributes
extra_state_attributes(r) ==
    /\ last_call' = [op |-> "extra_state_attributes", entry |-> "", entity |-> r,
                     result |-> extra_state_attributes_result(Entity(r))]
    /\ UNCHANGED <<hass_data, coordinator, sensor_types, added>>

Next ==
    \/ \E entry \in EntryIds : async_setup_entry(entry)
    \/ \E c \in CoordinatorIds : coordinator_refresh(c)
    \/ \E r \in EntityRefs : native_value(r)
    \/ \E r \in EntityRefs : extra_state_attributes(r)

Spec == Init /\ [][Next]_vars

(***************************************************************************)
(* Properties                                                              *)
(***************************************************************************)
ReadOps == {"native_value", "extra_state_attributes"}

\* the entity the host read last, its descriptor and the payload it read from
LastSelf == Entity(last_call.entity)

LastDescription == sensor_types[LastSelf.entity_description]

LastData == coordinator[LastSelf.coordinator].data

ScenarioSnapshot ==
    (ATTR_API_AQI :> PyInt(42)) @@ (ATTR_API_AQI_DESCRIPTION :> PyStr("Moderate"))
        @@ (ATTR_API_AQI_LEVEL :> PyInt(2))

\* C1: any two adapters built from the same coordinator carry the same
\* device identifiers, whatever their descriptors.
C1_SameDeviceIdentity ==
    \A r1 \in EntityRefs, r2 \in EntityRefs :
        Entity(r1).coordinator = Entity(r2).coordinator
            => Entity(r1)._attr_device_info.identifiers = Entity(r2)._attr_device_info.identifiers

\* C2: reading extra_state_attributes never raises, whichever payload fields
\* are absent from the snapshot.
C2_AttributesNeverRaise ==
    last_call.op = "extra_state_attributes" => last_call.result.kind = "return"

\* C3: reading native_value from a snapshot that lacks the descriptor's key
\* returns None and does not raise.
C3_MissingKeyIsNone ==
    (last_call.op = "native_value" /\ LastDescription.key \notin DOMAIN LastData)
        => last_call.result = Return(PyNone)

C3_Witness ==
    /\ last_call.op = "native_value"
    /\ LastDescription.key = ATTR_API_PM25
    /\ LastData = ScenarioSnapshot
    /\ last_call.result = Return(PyNone)

\* C4: for the AQI adapter and a snapshot holding the AQI description d and
\* the AQI level l, the attributes read is exactly {description: d, level: l}
\* and the value read is the snapshot's AQI value; the snapshot AQI 42,
\* "Moderate", 2 gives 42 and {description: "Moderate", level: 2}.
C4_AqiAttributes ==
    (/\ last_call.op \in ReadOps
     /\ LastDescription.key = ATTR_API_AQI
     /\ {ATTR_API_AQI_DESCRIPTION, ATTR_API_AQI_LEVEL} \subseteq DOMAIN LastData)
        => /\ last_call.op = "extra_state_attributes" =>
                /\ last_call.result.kind = "return"
                /\ DOMAIN last_call.result.value = {"description", "level"}
                /\ last_call.result.value["description"] = LastData[ATTR_API_AQI_DESCRIPTION]
                /\ last_call.result.value["level"] = LastData[ATTR_API_AQI_LEVEL]
           /\ (last_call.op = "native_value" /\ ATTR_API_AQI \in DOMAIN LastData) =>
                last_call.result = Return(LastData[ATTR_API_AQI])
           /\ (last_call.op = "extra_state_attributes" /\ LastData = ScenarioSnapshot) =>
                last_call.result =
                    Return([description |-> PyStr("Moderate"), level |-> PyInt(2)])
           /\ (last_call.op = "native_value" /\ LastData = ScenarioSnapshot) =>
                last_call.result = Return(PyInt(42))

C4_Witness ==
    /\ last_call.op = "extra_state_attributes"
    /\ LastDescription.key = ATTR_API_AQI
    /\ LastData = ScenarioSnapshot
    /\ last_call.result = Return([description |-> PyStr("Moderate"), level |-> PyInt(2)])

\* C5: the PM2.5 and ozone descriptors have no attribute function, and the
\* attributes read of their adapters returns None for every snapshot.
C5_NoAttributes ==
    /\ \A i \in 1..Len(sensor_types) :
          sensor_types[i].key \in {ATTR_API_PM25, ATTR_API_O3}
              => sensor_types[i].extra_state_attributes_fn = "None"
    /\ (last_call.op = "extra_state_attributes"
            /\ LastDescription.key \in {ATTR_API_PM25, ATTR_API_O3})
          => last_call.result = Return(PyNone)

C5_Witness ==
    /\ last_call.op = "extra_state_attributes"
    /\ LastDescription.key = ATTR_API_O3
    /\ DOMAIN LastData = PayloadFields
    /\ last_call.result = Return(PyNone)

\* C6: in every state, after any refreshes and reads, each adapter's unique
\* id is str(latitude) "-" str(longitude) "-" lower-cased key of the
\* coordinator and descriptor it was built from; latitude 40.0, longitude
\* -75.0 and key "AQI" give "40.0--75.0-aqi".
C6_UniqueId ==
    \A r \in EntityRefs :
        LET self == Entity(r)
            c == coordinator[self.coordinator]
            key == sensor_types[self.entity_description].key
        IN  /\ self._attr_unique_id =
                  float_str(c.latitude) \o <<"-">> \o float_str(c.longitude) \o <<"-">>
                      \o str_lower(str_chars(key))
            /\ (c.latitude = 400 /\ c.longitude = -750 /\ key = "AQI")
                  => self._attr_unique_id =
                        <<"4", "0", ".", "0", "-", "-", "7", "5", ".", "0", "-", "a", "q", "i">>

C6_Witness ==
    /\ last_call.op = "native_value"
    /\ LastDescription.key = "AQI"
    /\ coordinator[LastSelf.coordinator].latitude = 400
    /\ coordinator[LastSelf.coordinator].longitude = -750
    /\ LastSelf._attr_unique_id =
          <<"4", "0", ".", "0", "-", "-", "7", "5", ".", "0", "-", "a", "q", "i">>

\* C7: each set-up of an entry makes one async_add_entities call whose list
\* holds one adapter per descriptor of SENSOR_TYPES, in table order, every
\* one bound to the coordinator stored for that entry.
C7_SetupBuildsTable ==
    /\ \A n \in 1..Len(added) :
          /\ Len(added[n].entities) = Len(SENSOR_TYPES)
          /\ \A i \in 1..Len(added[n].entities) :
                /\ sensor_types[added[n].entities[i].entity_description] = SENSOR_TYPES[i]
                /\ added[n].entities[i].coordinator = hass_data[added[n].config_entry]
          /\ added[n].update_before_add = FALSE
          /\ \A m \in 1..Len(added) : added[m].config_entry = added[n].config_entry => m = n
    /\ last_call.op = "async_setup_entry"
          => /\ Len(added) >= 1
             /\ added[Len(added)].config_entry = last_call.entry

C7_Witness ==
    /\ last_call.op = "async_setup_entry"
    /\ last_call.entry = "entry_2"
    /\ Len(added) = 2
    /\ \A i \in 1..3 : added[2].entities[i].coordinator = 2

\* C8: whatever refreshes came before, a value read or attributes read
\* returns the descriptor's function applied to the snapshot its coordinator
\* holds at the time of the read.
C8_ReadsCurrentSnapshot ==
    /\ last_call.op = "native_value" =>
          last_call.result =
              (CASE LastDescription.key = ATTR_API_AQI -> value_fn_aqi(LastData)
                 [] LastDescription.key = ATTR_API_PM25 -> value_fn_pm25(LastData)
                 [] LastDescription.key = ATTR_API_O3 -> value_fn_o3(LastData))
    /\ last_call.op = "extra_state_attributes" =>
          last_call.result =
              (IF LastDescription.key = ATTR_API_AQI
               THEN extra_state_attributes_fn_aqi(LastData)
               ELSE Return(PyNone))

C8_Witness ==
    /\ last_call.op = "native_value"
    /\ LastSelf.coordinator = 2
    /\ LastDescription.key = ATTR_API_O3
    /\ coordinator[1].data = << >>
    /\ last_call.result = Return(PyInt(3))

\* C9: a value read or attributes read changes neither the coordinators'
\* snapshots, nor the descriptor table, nor any adapter (its unique id and
\* device info included), and repeating the read returns the same result.
C9_ReadsArePure ==
    [][last_call'.op \in ReadOps =>
          /\ coordinator' = coordinator
          /\ sensor_types' = sensor_types
          /\ added' = added
          /\ hass_data' = hass_data
          /\ (last_call.op = last_call'.op /\ last_call.entity = last_call'.entity)
                => last_call'.result = last_call.result]_vars

C9_Witness ==
    /\ last_call.op = "native_value"
    /\ LastDescription.key = ATTR_API_AQI
    /\ last_call.result = Return(PyInt(42))

====
